---- MODULE Spec2Model ----
(***************************************************************************)
(* Follow / unfollow controller of the embedded-array variant              *)
(* (Follow.Controller: followUser, unfollowUser, getFollowers,             *)
(* getFollowing) running against a document store with multi-document     *)
(* transactions (snapshot reads, first-writer-wins write conflicts).       *)
(*                                                                         *)
(* Every request is an independent asynchronous task; it is suspended at   *)
(* each `await` and the steps of different requests interleave there.      *)
(*                                                                         *)
(* Three further specifications share the module: SpecEdges (the Follow    *)
(* model of the normalized-edge variant), SpecAuth (register, login,       *)
(* logout and a route behind authMiddleware) and SpecPosts                 *)
(* (DeletePostController).  Each moves its own variables and leaves the    *)
(* others at their initial values.                                         *)
(***************************************************************************)
EXTENDS Integers, Sequences, FiniteSets, TLC

(* ---------------------------------------------------------------- bounds *)
NumUsers == 2        \* user records that exist in the collection
MaxRequests == 2     \* requests started in one behaviour
MaxFaults == 1       \* store failures injected in one behaviour

Reqs == {"r1", "r2"}             \* request tasks that may be in flight together
Users == 1..NumUsers             \* ObjectIds of the stored user records
Ghost == NumUsers + 1            \* a well-formed ObjectId with no record
Oids == Users \cup {Ghost}

(* ------------------------------------------------- identities on the wire *)
(* An id arrives as a string.  A 24-digit hex string is accepted in either *)
(* letter case and both spellings cast to the same ObjectId; an ObjectId   *)
(* prints in lower case.                                                   *)
Lower(o) == [oid |-> o, form |-> "lower"]
Upper(o) == [oid |-> o, form |-> "upper"]
Malformed == [oid |-> 0, form |-> "malformed"]
CallerIds == {Lower(o) : o \in Oids}
ParamIds == {Lower(o) : o \in Oids} \cup {Upper(o) : o \in Oids} \cup {Malformed}

isValidObjectId(id) == id.form \in {"lower", "upper"}
CastObjectId(id) == id.oid
toString(o) == Lower(o)

(* ------------------------------------------------------------- documents *)
NULL == [none |-> TRUE]
NoId == [oid |-> 0, form |-> "none"]
EmptyUser == [following |-> <<>>, followers |-> <<>>]
NoWrites == [u \in Users |-> NULL]

Count(x, arr) == Cardinality({i \in DOMAIN arr : arr[i] = x})
(* variant: the stored ids are compared as strings with the raw parameter *)
includesRaw(arr, id) == \E i \in DOMAIN arr : toString(arr[i]) = id
includes(arr, id) == \E i \in DOMAIN arr : arr[i] = CastObjectId(id)
push(arr, id) == Append(arr, CastObjectId(id))
(* variant: the filter predicate is inverted *)
filterKeep(arr, id) == SelectSeq(arr, LAMBDA e : toString(e) = id)
filterOut(arr, id) == SelectSeq(arr, LAMBDA e : toString(e) # id)

VARIABLES db, req, started, faults
(* The other collections of the application and the tasks working on them: *)
(* the normalized Follow collection (follows, call, ncalls) and the User   *)
(* collection with the authentication requests (users, areq, issued,       *)
(* ended, nauth), and the Post collection with the image store and the    *)
(* delete requests (posts, images, preq, ndel).                            *)
VARIABLES follows, call, ncalls
VARIABLES users, areq, issued, ended, nauth
VARIABLES posts, images, preq, ndel
followVars == <<db, req, started, faults>>
edgeVars == <<follows, call, ncalls>>
authVars == <<users, areq, issued, ended, nauth>>
postVars == <<posts, images, preq, ndel>>
aux == <<edgeVars, authVars, postVars>>
vars == <<followVars, edgeVars, authVars, postVars>>

(* ---- normalized Follow collection: nothing stored, no call running ---- *)
MaxCalls == 3                    \* Follow.followUser / unfollowUser calls in one behaviour
Calls == {"c1", "c2"}            \* calls that may be in flight together
EdgeIds == {Lower(u) : u \in Users} \cup {Upper(1), Malformed}
Pairs == Users \X Users
IdleCall == [pc |-> "idle", op |-> "none", followerId |-> NoId, followingId |-> NoId,
             result |-> "none"]
EdgesIdle ==
    /\ follows = [p \in Pairs |-> 0]
    /\ call = [c \in Calls |-> IdleCall]
    /\ ncalls = 0

(* ---- User collection and authentication: no user, no request running ---- *)
MaxAuth == 3                     \* authentication requests in one behaviour
AReqs == {"a1", "a2"}            \* requests that may be in flight together
NoStr == [s |-> "", form |-> "none"]        \* a field missing from the body
NoToken == [id |-> 0, iat |-> 0]
IdleAuth == [pc |-> "idle", kind |-> "none", username |-> NoStr, email |-> NoStr,
             identifier |-> NoStr, password |-> <<>>, token |-> NoToken,
             found |-> NULL, status |-> 0, message |-> "", error |-> "none",
             cookie |-> NoToken, afterLogout |-> FALSE]
AuthIdle ==
    /\ users = <<>>
    /\ areq = [a \in AReqs |-> IdleAuth]
    /\ issued = {}
    /\ ended = {}
    /\ nauth = 0

(* ---- Post collection and image store: no request running ---- *)
NumPosts == 2                    \* posts stored when the server starts
MaxDeletes == 3                  \* delete requests in one behaviour
PReqs == {"d1", "d2"}            \* requests that may be in flight together
PostIds == 1..NumPosts
NoFile == 0
NoUser == [oid |-> 0, form |-> "null"]
IdleDelete == [pc |-> "idle", userId |-> NoUser, id |-> NoId, post |-> NULL,
               status |-> 0, message |-> "", touched |-> FALSE]
PostsIdle == preq = [p \in PReqs |-> IdleDelete] /\ ndel = 0
(* the posts created earlier: each belongs to a user and has an uploaded   *)
(* image (file i for post i) or none.                                      *)
StoredPosts == [PostIds -> {[user |-> u, hasImage |-> b] : u \in Users, b \in BOOLEAN}]
PostDoc(i, d) == [user |-> d.user, img_fileId |-> IF d.hasImage THEN i ELSE NoFile]
PostsStored(c) ==
    /\ posts = [i \in PostIds |-> PostDoc(i, c[i])]
    /\ images = {i \in PostIds : c[i].hasImage}
NoPostTraffic == PostsIdle /\ PostsStored([i \in PostIds |-> [user |-> 1, hasImage |-> FALSE]])

IdleReq == [pc |-> "idle", op |-> "none", myId |-> NoId, targetUserId |-> NoId,
            txn |-> "none", sessionEnded |-> FALSE, snap |-> <<>>, stale |-> {},
            me |-> NULL, targetUser |-> NULL, writes |-> NoWrites,
            status |-> 0, message |-> "", error |-> "none",
            commitCalled |-> FALSE,
            seq |-> 0, solo |-> FALSE, peer |-> 0, fault |-> FALSE]

(* The collection when the server starts: no edge yet, or one edge a -> b   *)
(* left by an earlier successful followUser.                               *)
OneEdge(a, b) == [u \in Users |-> [following |-> IF u = a THEN <<b>> ELSE <<>>,
                                   followers |-> IF u = b THEN <<a>> ELSE <<>>]]
InitialDbs == {[u \in Users |-> EmptyUser]}
              \cup {OneEdge(p[1], p[2]) : p \in {e \in Users \X Users : e[1] # e[2]}}

Init ==
    /\ db \in InitialDbs
    /\ req = [r \in Reqs |-> IdleReq]
    /\ started = 0
    /\ faults = 0
    /\ EdgesIdle
    /\ AuthIdle
    /\ NoPostTraffic


(* ------------------------------------------------------------- the store *)
(* User.findById(id).session(session): the id is cast to an ObjectId and   *)
(* the record is read from the transaction's view.                         *)
findById(view, id) ==
    IF CastObjectId(id) \in Users THEN view[CastObjectId(id)] ELSE NULL

InFlight(q) == q.pc \notin {"idle", "done", "stuck"}

(* What transaction q reads for record u: its snapshot plus its own writes *)
View(q, u) == IF q.writes[u] # NULL THEN q.writes[u] ELSE q.snap[u]

(* variant: the saves are not bound to the session, so no write conflicts *)
WriteConflictOff(r, u) == FALSE

(* A write of record u by request r conflicts when the record was changed  *)
(* by a transaction that committed after r's snapshot, or holds an         *)
(* uncommitted write of another open transaction.                          *)
WriteConflict(r, u) ==
    \/ u \in req[r].stale
    \/ \E o \in Reqs \ {r} : req[o].txn = "open" /\ req[o].writes[u] # NULL

Written(q) == {u \in Users : q.writes[u] # NULL}

(* session.commitTransaction(): all writes become visible together *)
Committed(q) == [u \in Users |-> IF q.writes[u] # NULL THEN q.writes[u] ELSE db[u]]

Invalidate(r) ==
    [o \in Reqs |->
        IF o # r /\ req[o].txn = "open" /\ req[o].pc \in {"findTarget", "saveMe", "saveTarget", "commit"}
        THEN [req[o] EXCEPT !.stale = @ \cup Written(req[r])]
        ELSE req[o]]

(* ------------------------------------------------------------- responses *)
(* The handler returns: its local variables (me, targetUser) go out of scope. *)
Return(q, pc) == [q EXCEPT !.pc = pc, !.me = NULL, !.targetUser = NULL, !.stale = {}]

Respond(q, code, msg) == [Return(q, "done") EXCEPT !.status = code, !.message = msg]

(* global error handler: res.status(err.status || 500).json({message: err.message || ...}) *)
ErrorHandler(q) == Respond(q, 500, q.error)

Throw(q, err) == [q EXCEPT !.pc = "catch", !.error = err]

(* ------------------------------------------------- followUser / unfollowUser *)
(* startSession, startTransaction, then the checks made before the first   *)
(* read.  An early `return res.status(..)` leaves the try block without    *)
(* touching the session.                                                   *)
Validate(q) ==
    IF ~isValidObjectId(q.targetUserId)
    THEN Respond(q, 400, "Invalid user ID")
    ELSE IF q.op = "follow" /\ q.myId = q.targetUserId
    THEN Respond(q, 400, "You cannot follow yourself")
    ELSE [q EXCEPT !.pc = "findMe"]

SamePair(q, op, my, tgt) ==
    /\ q.op = op /\ q.myId = my
    /\ CastObjectId(q.targetUserId) = CastObjectId(tgt)

Start(r) ==
    /\ ~InFlight(req[r])
    /\ started < MaxRequests
    /\ \E op \in {"follow", "unfollow"}, my \in CallerIds, tgt \in ParamIds :
        LET others == {o \in Reqs \ {r} : InFlight(req[o])}
            peers == {o \in others : SamePair(req[o], op, my, tgt)}
            q == [IdleReq EXCEPT !.op = op, !.myId = my, !.targetUserId = tgt,
                                 !.txn = "open", !.seq = started + 1,
                                 !.solo = (others = {}),
                                 !.peer = IF peers = {} THEN 0
                                          ELSE req[CHOOSE o \in peers : TRUE].seq]
        IN req' = [req EXCEPT ![r] = Validate(q)]
    /\ started' = started + 1
    /\ UNCHANGED <<db, faults>>
    /\ UNCHANGED aux

(* const me = await User.findById(myId).session(session) *)
FindMe(r) ==
    /\ req[r].pc = "findMe"
    /\ req' = [req EXCEPT ![r] = [@ EXCEPT !.snap = db, !.stale = {},
                                           !.me = findById(db, req[r].myId),
                                           !.pc = "findTarget"]]
    /\ UNCHANGED <<db, started, faults>>
    /\ UNCHANGED aux

(* The checks and the in-memory edits that follow the second read. *)
FollowEdit(q, target) ==
    IF q.me = NULL \/ target = NULL
    THEN Respond(q, 404, "User not found")
    ELSE IF includes(q.me.following, q.targetUserId)
    THEN Respond(q, 409, "Already following this user")
    ELSE [q EXCEPT !.me = [@ EXCEPT !.following = push(@, q.targetUserId)],
                   !.targetUser = [target EXCEPT !.followers = push(@, q.myId)],
                   !.pc = "saveMe"]

(* variant: a missing record is silently ignored *)
UnfollowEditIgnoreMissing(q, target) ==
    IF q.me = NULL \/ target = NULL
    THEN Respond(q, 200, "User unfollowed successfully")
    ELSE [q EXCEPT !.me = [@ EXCEPT !.following = filterOut(@, q.targetUserId)],
                   !.targetUser = [target EXCEPT !.followers = filterOut(@, q.myId)],
                   !.pc = "saveMe"]

UnfollowEdit(q, target) ==
    IF q.me = NULL \/ target = NULL
    THEN Respond(q, 404, "User not found")
    ELSE [q EXCEPT !.me = [@ EXCEPT !.following = filterOut(@, q.targetUserId)],
                   !.targetUser = [target EXCEPT !.followers = filterOut(@, q.myId)],
                   !.pc = "saveMe"]

(* const targetUser = await User.findById(targetUserId).session(session) *)
FindTarget(r) ==
    /\ req[r].pc = "findTarget"
    /\ LET q == req[r]
           target == findById(q.snap, q.targetUserId)
       IN req' = [req EXCEPT ![r] = IF q.op = "follow" THEN FollowEdit(q, target)
                                                       ELSE UnfollowEdit(q, target)]
    /\ UNCHANGED <<db, started, faults>>
    /\ UNCHANGED aux

(* doc.save({session}) sends the modified path only; an unmodified         *)
(* document sends nothing.                                                 *)
Save(r, u, field, value, nextPc) ==
    LET q == req[r]
        cur == View(q, u)
    IN IF value = q.snap[u][field]
       THEN [q EXCEPT !.pc = nextPc]
       ELSE IF WriteConflict(r, u)
       THEN Throw(q, "WriteConflict")
       ELSE [q EXCEPT !.writes[u] = [cur EXCEPT ![field] = value], !.pc = nextPc]

(* await me.save({ session }) *)
SaveMe(r) ==
    /\ req[r].pc = "saveMe"
    /\ req' = [req EXCEPT ![r] = Save(r, CastObjectId(@.myId), "following",
                                      @.me.following, "saveTarget")]
    /\ UNCHANGED <<db, started, faults>>
    /\ UNCHANGED aux

(* await targetUser.save({ session }) *)
SaveTarget(r) ==
    /\ req[r].pc = "saveTarget"
    /\ req' = [req EXCEPT ![r] = Save(r, CastObjectId(@.targetUserId), "followers",
                                      @.targetUser.followers, "commit")]
    /\ UNCHANGED <<db, started, faults>>
    /\ UNCHANGED aux

SuccessMessage(op) ==
    IF op = "follow" THEN "User followed successfully" ELSE "User unfollowed successfully"

(* await session.commitTransaction(); session.endSession(); res.status(200) *)
Commit(r) ==
    /\ req[r].pc = "commit"
    /\ db' = Committed(req[r])
    /\ req' = [Invalidate(r) EXCEPT ![r] =
                  Respond([req[r] EXCEPT !.txn = "committed", !.commitCalled = TRUE,
                                         !.sessionEnded = TRUE],
                          200, SuccessMessage(req[r].op))]
    /\ UNCHANGED <<started, faults>>
    /\ UNCHANGED aux

(* A read or a write rejected by the store (connection lost, timeout). *)
StoreFailure(r) ==
    /\ req[r].pc \in {"findMe", "findTarget", "saveMe", "saveTarget"}
    /\ faults < MaxFaults
    /\ faults' = faults + 1
    /\ req' = [req EXCEPT ![r] = Throw([@ EXCEPT !.fault = TRUE], "StoreFailure")]
    /\ UNCHANGED <<db, started>>
    /\ UNCHANGED aux

(* commitTransaction rejects: the outcome on the server is either one. *)
CommitFailure(r) ==
    /\ req[r].pc = "commit"
    /\ faults < MaxFaults
    /\ faults' = faults + 1
    /\ \E applied \in BOOLEAN :
        /\ db' = IF applied THEN Committed(req[r]) ELSE db
        /\ req' = [(IF applied THEN Invalidate(r) ELSE req) EXCEPT ![r] =
                      Throw([req[r] EXCEPT !.txn = IF applied THEN "committed" ELSE "aborted",
                                           !.writes = IF applied THEN @ ELSE NoWrites,
                                           !.commitCalled = TRUE, !.fault = TRUE],
                            "StoreFailure")]
    /\ UNCHANGED started
    /\ UNCHANGED aux

(* catch: await session.abortTransaction(); session.endSession(); next(error) *)
Abort(r) ==
    /\ req[r].pc = "catch"
    /\ ~req[r].commitCalled
    /\ req' = [req EXCEPT ![r] = ErrorHandler([@ EXCEPT !.txn = "aborted",
                                                        !.writes = NoWrites,
                                                        !.sessionEnded = TRUE])]
    /\ UNCHANGED <<db, started, faults>>
    /\ UNCHANGED aux

(* abortTransaction after commitTransaction was called throws inside the   *)
(* catch block: the handler's promise rejects and nothing answers.         *)
AbortThrows(r) ==
    /\ req[r].pc = "catch"
    /\ req[r].commitCalled
    /\ req' = [req EXCEPT ![r] = [Return(@, "stuck") EXCEPT !.error = "TransactionError"]]
    /\ UNCHANGED <<db, started, faults>>
    /\ UNCHANGED aux

Next ==
    \E r \in Reqs :
        \/ Start(r)
        \/ FindMe(r)
        \/ FindTarget(r)
        \/ SaveMe(r)
        \/ SaveTarget(r)
        \/ Commit(r)
        \/ StoreFailure(r)
        \/ CommitFailure(r)
        \/ Abort(r)
        \/ AbortThrows(r)

Spec == Init /\ [][Next]_vars

(* ------------------------------------------------------------ read side *)
(* User.findById(userId).populate(path, "username email profile").lean():  *)
(* the stored ids in storage order, each replaced by the referenced user's *)
(* summary; ids whose record is missing are dropped.                       *)
UserDoc(u) == [id |-> u, username |-> <<"username", u>>, email |-> <<"email", u>>,
               password |-> <<"hash", u>>, bio |-> "", profile |-> <<"imageUrl", u>>]
PublicFields == {"username", "email", "profile"}
select(doc, fields) == [f \in fields \cup {"id"} |-> doc[f]]

(* variant: the credential hash is among the populated fields *)
populateWithPassword(arr) ==
    [i \in DOMAIN SelectSeq(arr, LAMBDA e : e \in Users) |->
        select(UserDoc(SelectSeq(arr, LAMBDA e : e \in Users)[i]),
               PublicFields \cup {"password"})]

populate(arr) ==
    [i \in DOMAIN SelectSeq(arr, LAMBDA e : e \in Users) |->
        select(UserDoc(SelectSeq(arr, LAMBDA e : e \in Users)[i]), PublicFields)]

getFollowers(view, userId) ==
    IF ~isValidObjectId(userId) THEN [status |-> 400, list |-> <<>>]
    ELSE IF findById(view, userId) = NULL THEN [status |-> 404, list |-> <<>>]
    ELSE [status |-> 200, list |-> populate(findById(view, userId).followers)]

getFollowing(view, userId) ==
    IF ~isValidObjectId(userId) THEN [status |-> 400, list |-> <<>>]
    ELSE IF findById(view, userId) = NULL THEN [status |-> 404, list |-> <<>>]
    ELSE [status |-> 200, list |-> populate(findById(view, userId).following)]

TypeOK ==
    /\ started \in 0..MaxRequests
    /\ faults \in 0..MaxFaults
    /\ \A r \in Reqs : req[r].pc \in {"idle", "findMe", "findTarget", "saveMe",
                                      "saveTarget", "commit", "catch", "done", "stuck"}

(* ============================================ normalized Follow model *)
(* Follow collection: one document per follow relationship.  follows[p] is *)
(* the number of stored documents whose (follower, following) is p.  The   *)
(* statics followUser, unfollowUser and isFollowing are called by          *)
(* concurrent tasks; create() validates the document, then inserts it.     *)
FollowIdle ==
    /\ db = [u \in Users |-> EmptyUser]
    /\ req = [r \in Reqs |-> IdleReq]
    /\ started = 0
    /\ faults = 0

InitEdges == FollowIdle /\ EdgesIdle /\ AuthIdle /\ NoPostTraffic

Fail(q, err) == [q EXCEPT !.pc = "done", !.result = err]
Succeed(q) == [q EXCEPT !.pc = "done", !.result = "ok"]

(* variant: the compound index is not unique *)
DuplicateKeyOff(coll, f, g) == FALSE
(* followSchema.index({ follower: 1, following: 1 }, { unique: true }) *)
DuplicateKey(coll, f, g) == coll[<<f, g>>] > 0

(* Follow.followUser(followerId, followingId): this.create({...}) *)
CallFollow(c) ==
    /\ call[c].pc \in {"idle", "done"}
    /\ ncalls < MaxCalls
    /\ ncalls' = ncalls + 1
    /\ \E a, b \in EdgeIds :
        call' = [call EXCEPT ![c] = [IdleCall EXCEPT !.pc = "validate", !.op = "follow",
                                              !.followerId = a, !.followingId = b]]
    /\ UNCHANGED follows
    /\ UNCHANGED <<followVars, authVars, postVars>>

(* pre("validate") hook, then the schema's validation: a value that does   *)
(* not cast to an ObjectId leaves its path unset, the hook lets it pass    *)
(* and validation rejects the document.                                    *)
PreValidate(c) ==
    /\ call[c].pc = "validate"
    /\ LET follower == CastObjectId(call[c].followerId)
           following == CastObjectId(call[c].followingId)
       IN call' = [call EXCEPT ![c] =
                     IF follower = 0 \/ following = 0
                     THEN Fail(@, "ValidationError")
                     ELSE IF follower = following
                     THEN Fail(@, "User cannot follow themselves")
                     ELSE [@ EXCEPT !.pc = "insert"]]
    /\ UNCHANGED <<follows, ncalls>>
    /\ UNCHANGED <<followVars, authVars, postVars>>

(* insertOne: the unique index is checked and the document stored in one   *)
(* step of the store.                                                      *)
InsertOne(c) ==
    /\ call[c].pc = "insert"
    /\ LET follower == CastObjectId(call[c].followerId)
           following == CastObjectId(call[c].followingId)
       IN IF DuplicateKey(follows, follower, following)
          THEN /\ call' = [call EXCEPT ![c] = Fail(@, "E11000")]
               /\ UNCHANGED follows
          ELSE /\ call' = [call EXCEPT ![c] = Succeed(@)]
               /\ follows' = [follows EXCEPT ![<<follower, following>>] = @ + 1]
    /\ UNCHANGED ncalls
    /\ UNCHANGED <<followVars, authVars, postVars>>

(* Follow.unfollowUser(followerId, followingId): this.deleteOne({...})     *)
(* removes one matching document if there is one.                          *)
CallUnfollow(c) ==
    /\ call[c].pc \in {"idle", "done"}
    /\ ncalls < MaxCalls
    /\ ncalls' = ncalls + 1
    /\ \E a, b \in EdgeIds :
        LET follower == CastObjectId(a)
            following == CastObjectId(b)
            q == [IdleCall EXCEPT !.op = "unfollow", !.followerId = a, !.followingId = b]
        IN IF follower = 0 \/ following = 0
           THEN /\ call' = [call EXCEPT ![c] = Fail(q, "CastError")]
                /\ UNCHANGED follows
           ELSE /\ call' = [call EXCEPT ![c] = Succeed(q)]
                /\ follows' = [follows EXCEPT ![<<follower, following>>] =
                                                  IF @ > 0 THEN @ - 1 ELSE 0]
    /\ UNCHANGED <<followVars, authVars, postVars>>

(* Follow.isFollowing(followerId, followingId): !!(await this.exists({..})) *)
(* for ids that cast to an ObjectId.                                        *)
isFollowing(coll, followerId, followingId) ==
    coll[<<CastObjectId(followerId), CastObjectId(followingId)>>] > 0

NextEdges ==
    \E c \in Calls :
        \/ CallFollow(c)
        \/ PreValidate(c)
        \/ InsertOne(c)
        \/ CallUnfollow(c)

SpecEdges == InitEdges /\ [][NextEdges]_vars

(* ===================================================== authentication *)
(* RegisterController, LoginController, LogoutController and a route behind *)
(* authMiddleware, against the User collection.  users is the collection   *)
(* in insertion order; a user's _id is its position.                       *)
(*                                                                         *)
(* Strings are records [s, form]: an e-mail address may arrive in lower    *)
(* case or with capitals, and the schema's `lowercase` setter maps both to *)
(* the lower-case spelling, on stored values and on query values alike.    *)
Str(s, form) == [s |-> s, form |-> form]
Usernames == {Str("u1", "lower"), Str("u2", "lower")}
Emails == {Str(e, f) : e \in {"e1", "e2"}, f \in {"lower", "mixed"}}
Passwords == {<<"p1">>, <<"p2">>}
toLowerCase(x) == [x EXCEPT !.form = "lower"]

(* bcrypt.hash: a one-way image of its argument; hashing a hash gives a    *)
(* third value.  bcrypt.compare(data, hash) holds when hash is the image   *)
(* of data.                                                                *)
bcryptHash(data) == <<"$2b$">> \o data
bcryptCompare(data, hash) == hash = bcryptHash(data)

(* jwt.sign({ id: userId }, secret, { expiresIn }): the id and the time of *)
(* issue, signed; the server keeps no copy.                                *)
createToken(userId) == [id |-> userId, iat |-> nauth]
Forged == [id |-> 1, iat |-> 0]
(* authMiddleware: the request passes when its token verifies, i.e. it is  *)
(* one this server signed.                                                 *)
authMiddleware(token) == token \in issued

(* User.findOne({ $or: [{ email }, { username }] }): the first document in *)
(* natural order that matches, without the select:false password.          *)
Matches(doc, email, username) ==
    \/ email # NoStr /\ doc.email = toLowerCase(email)
    \/ username # NoStr /\ doc.username = username
Summary(i) == [id |-> i, username |-> users[i].username, email |-> users[i].email]
findOne(email, username) ==
    IF \E i \in DOMAIN users : Matches(users[i], email, username)
    THEN Summary(CHOOSE i \in DOMAIN users :
                    /\ Matches(users[i], email, username)
                    /\ \A j \in DOMAIN users : Matches(users[j], email, username) => i <= j)
    ELSE NULL

Answer(q, code, msg) == [q EXCEPT !.pc = "done", !.status = code, !.message = msg]
Caught(q, msg, err) == [Answer(q, 500, msg) EXCEPT !.error = err]

(* the unique indexes on username and on email *)
UniqueViolated(doc) ==
    \E i \in DOMAIN users : users[i].username = doc.username \/ users[i].email = doc.email

(* POST /register: body read and checked for missing fields *)
RegisterStart(a) ==
    /\ areq[a].pc \in {"idle", "done"}
    /\ nauth < MaxAuth
    /\ nauth' = nauth + 1
    /\ \E username \in Usernames, email \in Emails \cup {NoStr}, password \in Passwords :
        LET q == [IdleAuth EXCEPT !.kind = "register", !.username = username,
                                  !.email = email, !.password = password]
        IN areq' = [areq EXCEPT ![a] =
                      IF email = NoStr
                      THEN Answer(q, 400, "Username, email and password are required")
                      ELSE [q EXCEPT !.pc = "findOne"]]
    /\ UNCHANGED <<users, issued, ended>>
    /\ UNCHANGED <<followVars, edgeVars, postVars>>

(* const existingUser = await User.findOne(..); if (existingUser) 409 *)
RegisterFindOne(a) ==
    /\ areq[a].kind = "register" /\ areq[a].pc = "findOne"
    /\ LET existingUser == findOne(areq[a].email, areq[a].username)
       IN areq' = [areq EXCEPT ![a] =
                     IF existingUser # NULL
                     THEN Answer([@ EXCEPT !.found = existingUser], 409,
                                 IF existingUser.email = @.email
                                 THEN "Email already registered"
                                 ELSE "Username already taken")
                     ELSE [@ EXCEPT !.pc = "create"]]
    /\ UNCHANGED <<users, issued, ended, nauth>>
    /\ UNCHANGED <<followVars, edgeVars, postVars>>

(* hashedPassword = await bcrypt.hash(password, 12); User.create({..}):    *)
(* the setters run, the pre-save hook hashes the password path, the        *)
(* insert is checked against the unique indexes; then the token cookie.    *)
RegisterCreate(a) ==
    /\ areq[a].kind = "register" /\ areq[a].pc = "create"
    /\ LET hashedPassword == bcryptHash(areq[a].password)
           doc == [username |-> areq[a].username, email |-> toLowerCase(areq[a].email),
                   password |-> bcryptHash(hashedPassword)]
           token == createToken(Len(users) + 1)
       IN IF UniqueViolated(doc)
          THEN /\ areq' = [areq EXCEPT ![a] = Caught(@, "Registration failed", "E11000")]
               /\ UNCHANGED <<users, issued>>
          ELSE /\ users' = Append(users, doc)
               /\ issued' = issued \cup {token}
               /\ areq' = [areq EXCEPT ![a] =
                             [Answer(@, 201, "User registered successfully")
                                EXCEPT !.cookie = token]]
    /\ UNCHANGED <<ended, nauth>>
    /\ UNCHANGED <<followVars, edgeVars, postVars>>

(* POST /login *)
LoginStart(a) ==
    /\ areq[a].pc \in {"idle", "done"}
    /\ nauth < MaxAuth
    /\ nauth' = nauth + 1
    /\ \E identifier \in Usernames \cup Emails \cup {NoStr}, password \in Passwords :
        LET q == [IdleAuth EXCEPT !.kind = "login", !.identifier = identifier,
                                  !.password = password]
        IN areq' = [areq EXCEPT ![a] =
                      IF identifier = NoStr
                      THEN Answer(q, 400, "Email/Username and password required")
                      ELSE [q EXCEPT !.pc = "findOne"]]
    /\ UNCHANGED <<users, issued, ended>>
    /\ UNCHANGED <<followVars, edgeVars, postVars>>

(* const user = await User.findOne(..); if (!user) 401 *)
LoginFindOne(a) ==
    /\ areq[a].kind = "login" /\ areq[a].pc = "findOne"
    /\ LET user == findOne(areq[a].identifier, areq[a].identifier)
       IN areq' = [areq EXCEPT ![a] =
                     IF user = NULL
                     THEN Answer(@, 401, "Invalid credentials")
                     ELSE [@ EXCEPT !.found = user, !.pc = "compare"]]
    /\ UNCHANGED <<users, issued, ended, nauth>>
    /\ UNCHANGED <<followVars, edgeVars, postVars>>

(* const isMatch = await bcrypt.compare(password, user.password): compare  *)
(* rejects when the hash argument is undefined.                            *)
LoginCompare(a) ==
    /\ areq[a].kind = "login" /\ areq[a].pc = "compare"
    /\ LET user == areq[a].found
           token == createToken(user.id)
       IN IF "password" \notin DOMAIN user
          THEN /\ areq' = [areq EXCEPT ![a] =
                             Caught(@, "Login failed", "data and hash arguments required")]
               /\ UNCHANGED issued
          ELSE IF bcryptCompare(areq[a].password, user.password)
          THEN /\ areq' = [areq EXCEPT ![a] =
                             [Answer(@, 200, "Login successful") EXCEPT !.cookie = token]]
               /\ issued' = issued \cup {token}
          ELSE /\ areq' = [areq EXCEPT ![a] = Answer(@, 401, "Invalid credentials")]
               /\ UNCHANGED issued
    /\ UNCHANGED <<users, ended, nauth>>
    /\ UNCHANGED <<followVars, edgeVars, postVars>>

(* POST /logout behind authMiddleware: clearCookie("token"), 200 *)
Logout(a) ==
    /\ areq[a].pc \in {"idle", "done"}
    /\ nauth < MaxAuth
    /\ nauth' = nauth + 1
    /\ \E token \in issued \cup {Forged} :
        LET q == [IdleAuth EXCEPT !.kind = "logout", !.token = token]
        IN IF authMiddleware(token)
           THEN /\ areq' = [areq EXCEPT ![a] = Answer(q, 200, "Logged out successfully")]
                /\ ended' = ended \cup {token}
           ELSE /\ areq' = [areq EXCEPT ![a] = Answer(q, 401, "Unauthorized")]
                /\ UNCHANGED ended
    /\ UNCHANGED <<users, issued>>
    /\ UNCHANGED <<followVars, edgeVars, postVars>>

(* a request to a route behind authMiddleware (POST /follow/:userId)       *)
(* presenting a token it holds; status 200 stands for the handler having   *)
(* been reached.                                                           *)
Protected(a) ==
    /\ areq[a].pc \in {"idle", "done"}
    /\ nauth < MaxAuth
    /\ nauth' = nauth + 1
    /\ \E token \in issued \cup {Forged} :
        LET q == [IdleAuth EXCEPT !.kind = "protected", !.token = token,
                                  !.afterLogout = (token \in ended)]
        IN areq' = [areq EXCEPT ![a] =
                      IF authMiddleware(token)
                      THEN Answer(q, 200, "next")
                      ELSE Answer(q, 401, "Unauthorized")]
    /\ UNCHANGED <<users, issued, ended>>
    /\ UNCHANGED <<followVars, edgeVars, postVars>>

InitAuth == FollowIdle /\ EdgesIdle /\ AuthIdle /\ NoPostTraffic

NextAuth ==
    \E a \in AReqs :
        \/ RegisterStart(a)
        \/ RegisterFindOne(a)
        \/ RegisterCreate(a)
        \/ LoginStart(a)
        \/ LoginFindOne(a)
        \/ LoginCompare(a)
        \/ Logout(a)
        \/ Protected(a)

SpecAuth == InitAuth /\ [][NextAuth]_vars

(* ============================================================== posts *)
(* DeletePostController against the Post collection and the image store    *)
(* (ImageKit).  posts[i] is the stored post with _id i, or NULL once it is  *)
(* deleted; images is the set of files the image store holds.              *)
PostParams == {Lower(i) : i \in PostIds} \cup {Upper(1), Lower(NumPosts + 1), Malformed}

(* getUserFromToken(req): the id of the authenticated user as the token    *)
(* carries it, or null when the request carries no valid token.            *)
getUserFromToken(user) == IF user = 0 THEN NoUser ELSE toString(user)

(* Post.findById(req.params.id) for an id that casts *)
findPost(id) == IF CastObjectId(id) \in PostIds THEN posts[CastObjectId(id)] ELSE NULL

Reply(q, code, msg) == [q EXCEPT !.pc = "done", !.status = code, !.message = msg]

(* variant: the ownership check is left out *)
ForbiddenOff(post, userId) == FALSE
(* post.user.toString() !== userId *)
Forbidden(post, userId) == toString(post.user) # userId

(* DELETE /posts/:id: const userId = getUserFromToken(req); 401 if none *)
DeleteStart(p) ==
    /\ preq[p].pc \in {"idle", "done"}
    /\ ndel < MaxDeletes
    /\ ndel' = ndel + 1
    /\ \E user \in Users \cup {0}, id \in PostParams :
        LET q == [IdleDelete EXCEPT !.userId = getUserFromToken(user), !.id = id]
        IN preq' = [preq EXCEPT ![p] =
                      IF q.userId = NoUser
                      THEN Reply(q, 401, "Unauthorized")
                      ELSE [q EXCEPT !.pc = "findById"]]
    /\ UNCHANGED <<posts, images>>
    /\ UNCHANGED <<followVars, edgeVars, authVars>>

(* const post = await Post.findById(req.params.id); 404; 403; an id that   *)
(* does not cast makes findById reject and the catch block answers 500.    *)
DeleteFindById(p) ==
    /\ preq[p].pc = "findById"
    /\ LET post == findPost(preq[p].id)
       IN preq' = [preq EXCEPT ![p] =
                     IF ~isValidObjectId(@.id) THEN Reply(@, 500, "Server error")
                     ELSE IF post = NULL THEN Reply(@, 404, "Post not found")
                     ELSE IF Forbidden(post, @.userId) THEN Reply(@, 403, "Forbidden")
                     ELSE [@ EXCEPT !.post = post,
                                    !.pc = IF post.img_fileId # NoFile THEN "deleteFile"
                                           ELSE "deleteOne"]]
    /\ UNCHANGED <<posts, images, ndel>>
    /\ UNCHANGED <<followVars, edgeVars, authVars>>

(* await imagekit.deleteFile(post.img_fileId): rejects when the image      *)
(* store has no such file.                                                 *)
DeleteFile(p) ==
    /\ preq[p].pc = "deleteFile"
    /\ IF preq[p].post.img_fileId \in images
       THEN /\ images' = images \ {preq[p].post.img_fileId}
            /\ preq' = [preq EXCEPT ![p] = [@ EXCEPT !.pc = "deleteOne", !.touched = TRUE]]
       ELSE /\ preq' = [preq EXCEPT ![p] = Reply(@, 500, "Server error")]
            /\ UNCHANGED images
    /\ UNCHANGED <<posts, ndel>>
    /\ UNCHANGED <<followVars, edgeVars, authVars>>

(* imagekit.deleteFile rejects for a reason of the service or the network: *)
(* the file may or may not have been removed.                              *)
ImageKitFailure(p) ==
    /\ preq[p].pc = "deleteFile"
    /\ \E removed \in BOOLEAN :
        /\ images' = IF removed THEN images \ {preq[p].post.img_fileId} ELSE images
        /\ preq' = [preq EXCEPT ![p] =
                      Reply([@ EXCEPT !.touched = (images' # images)], 500, "Server error")]
    /\ UNCHANGED <<posts, ndel>>
    /\ UNCHANGED <<followVars, edgeVars, authVars>>

(* await post.deleteOne(); res.json({ message: "Post deleted successfully" }) *)
DeleteOne(p) ==
    /\ preq[p].pc = "deleteOne"
    /\ posts' = [posts EXCEPT ![CastObjectId(preq[p].id)] = NULL]
    /\ preq' = [preq EXCEPT ![p] =
                  Reply([@ EXCEPT !.touched = TRUE], 200, "Post deleted successfully")]
    /\ UNCHANGED <<images, ndel>>
    /\ UNCHANGED <<followVars, edgeVars, authVars>>

InitPosts ==
    /\ FollowIdle /\ EdgesIdle /\ AuthIdle /\ PostsIdle
    /\ \E c \in StoredPosts : PostsStored(c)

NextPosts ==
    \E p \in PReqs :
        \/ DeleteStart(p)
        \/ DeleteFindById(p)
        \/ DeleteFile(p)
        \/ ImageKitFailure(p)
        \/ DeleteOne(p)

SpecPosts == InitPosts /\ [][NextPosts]_vars

(* ================================================================ claims *)
Caller(q) == CastObjectId(q.myId)
Target(q) == CastObjectId(q.targetUserId)
Has(arr, x) == \E i \in DOMAIN arr : arr[i] = x
Done(q) == q.pc = "done"
ListHas(list, x) == \E i \in DOMAIN list : list[i].id = x

(* Request j was started right after request i had returned, and nothing   *)
(* else ran while either of them did.                                      *)
Sequential(i, j) ==
    /\ i # j /\ Done(req[i]) /\ Done(req[j])
    /\ req[i].solo /\ req[j].solo
    /\ req[j].seq = req[i].seq + 1

(* Request j was started while request i, for the same operation and pair, *)
(* was still running; both have returned.                                  *)
Raced(i, j) ==
    /\ i # j /\ Done(req[i]) /\ Done(req[j])
    /\ req[i].seq > 0 /\ req[j].peer = req[i].seq

(* The race was between these two alone: nothing else was running when i   *)
(* started and nothing was started between i and j.                        *)
RacedAlone(i, j) ==
    /\ Raced(i, j)
    /\ req[i].solo /\ req[j].seq = req[i].seq + 1

RealPair(q) == Caller(q) \in Users /\ Target(q) \in Users /\ Caller(q) # Target(q)

OneEdgeIn(d, a, b) == Count(b, d[a].following) = 1 /\ Count(a, d[b].followers) = 1

(* C1: in every committed state, B is in A.following exactly when A is in  *)
(* B.followers, for all users A and B.                                     *)
C1_FollowSymmetry ==
    \A a \in Users, b \in Users : Has(db[a].following, b) <=> Has(db[b].followers, a)

C3_NoSelfFollow ==
    /\ \A r \in Reqs :
          (Done(req[r]) /\ req[r].op = "follow" /\ isValidObjectId(req[r].targetUserId)
           /\ Caller(req[r]) \in Users /\ Caller(req[r]) = Target(req[r]) /\ ~req[r].fault)
          => (req[r].status = 400 /\ req[r].message = "You cannot follow yourself")
    /\ \A a \in Users : ~Has(db[a].following, a)

C5_LoserAlreadyFollowing ==
    \A i \in Reqs, j \in Reqs :
        ( /\ Raced(i, j)
          /\ req[i].op = "follow" /\ RealPair(req[i])
          /\ ~req[i].fault /\ ~req[j].fault )
        => \A r \in {i, j} :
              \/ req[r].status = 200
              \/ req[r].status = 409 /\ req[r].message = "Already following this user"

(* C6: unfollowUser(A,B) for existing A and B where A does not follow B    *)
(* answers 200 and writes nothing; and of two unfollowUser calls with the  *)
(* same arguments made one after the other both answer 200 and the second  *)
(* leaves the state as the first left it.                                  *)
C6_UnfollowIdempotent ==
    /\ \A r \in Reqs :
          ( /\ Done(req[r]) /\ req[r].op = "unfollow"
            /\ Caller(req[r]) \in Users /\ Target(req[r]) \in Users
            /\ ~req[r].fault
            /\ ~Has(req[r].snap[Caller(req[r])].following, Target(req[r])) )
          => /\ req[r].status = 200
             /\ req[r].message = "User unfollowed successfully"
             /\ Written(req[r]) = {}
    /\ \A i \in Reqs, j \in Reqs :
          ( /\ Sequential(i, j)
            /\ req[i].op = "unfollow" /\ req[j].op = "unfollow"
            /\ req[i].myId = req[j].myId /\ req[i].targetUserId = req[j].targetUserId
            /\ Caller(req[i]) \in Users /\ Target(req[i]) \in Users
            /\ ~req[i].fault /\ ~req[j].fault )
          => /\ req[i].status = 200 /\ req[j].status = 200
             /\ Written(req[j]) = {}
             /\ db = req[j].snap

C6_Witness ==
    \E i \in Reqs, j \in Reqs :
        /\ Sequential(i, j)
        /\ req[i].op = "unfollow" /\ req[j].op = "unfollow"
        /\ req[i].myId = req[j].myId /\ req[i].targetUserId = req[j].targetUserId
        /\ RealPair(req[i])
        /\ req[i].status = 200 /\ req[j].status = 200
        /\ Has(req[i].snap[Caller(req[i])].following, Target(req[i]))
        /\ ~Has(req[j].snap[Caller(req[j])].following, Target(req[j]))

(* C7: with an edge A -> B stored, A # B, unfollowUser(A,B) and then       *)
(* followUser(A,B) both answer 200; between them getFollowers(B) does not  *)
(* list A and getFollowing(A) does not list B; afterwards there is exactly *)
(* one edge and each list holds the other user once.                       *)
C7_UnfollowThenRefollow ==
    \A i \in Reqs, j \in Reqs :
        ( /\ Sequential(i, j)
          /\ req[i].op = "unfollow" /\ req[j].op = "follow"
          /\ req[i].myId = req[j].myId /\ Target(req[i]) = Target(req[j])
          /\ RealPair(req[i])
          /\ ~req[i].fault /\ ~req[j].fault
          /\ ListHas(getFollowers(req[i].snap, req[i].targetUserId).list, Caller(req[i]))
          /\ ListHas(getFollowing(req[i].snap, req[i].myId).list, Target(req[i])) )
        => /\ req[i].status = 200 /\ req[j].status = 200
           /\ ~ListHas(getFollowers(req[j].snap, req[j].targetUserId).list, Caller(req[j]))
           /\ ~ListHas(getFollowing(req[j].snap, req[j].myId).list, Target(req[j]))
           /\ OneEdgeIn(db, Caller(req[i]), Target(req[i]))
           /\ ListHas(getFollowers(db, req[j].targetUserId).list, Caller(req[j]))
           /\ ListHas(getFollowing(db, req[j].myId).list, Target(req[j]))

(* C8 as stated: followUser and unfollowUser with a well-formed id whose   *)
(* caller record or target record does not exist answer 404 'User not      *)
(* found' and write nothing.                                               *)
C8_MissingUserReported ==
    \A r \in Reqs :
        ( /\ Done(req[r]) /\ isValidObjectId(req[r].targetUserId)
          /\ (Caller(req[r]) \notin Users \/ Target(req[r]) \notin Users)
          /\ ~req[r].fault )
        => /\ req[r].status = 404 /\ req[r].message = "User not found"
           /\ Written(req[r]) = {}

(* C8 amended: as above, except that followUser whose target id is the     *)
(* very string of the caller id answers 400 'You cannot follow yourself'   *)
(* before any record is looked up; nothing is written in either case.      *)
C8_MissingUserReportedUnlessSelf ==
    \A r \in Reqs :
        ( /\ Done(req[r]) /\ isValidObjectId(req[r].targetUserId)
          /\ (Caller(req[r]) \notin Users \/ Target(req[r]) \notin Users)
          /\ ~req[r].fault )
        => /\ Written(req[r]) = {}
           /\ IF req[r].op = "follow" /\ req[r].myId = req[r].targetUserId
              THEN req[r].status = 400 /\ req[r].message = "You cannot follow yourself"
              ELSE req[r].status = 404 /\ req[r].message = "User not found"

C8_Witness ==
    \E i \in Reqs, j \in Reqs :
        /\ i # j /\ Done(req[i]) /\ Done(req[j])
        /\ req[i].op = "follow" /\ Caller(req[i]) \in Users /\ Target(req[i]) = Ghost
        /\ req[i].status = 404
        /\ req[j].op = "unfollow" /\ Caller(req[j]) = Ghost /\ Target(req[j]) \in Users
        /\ req[j].status = 404

(* C9: when followUser or unfollowUser answers 'Invalid user ID' or 'You   *)
(* cannot follow yourself', no transaction has been opened for the request *)
C9_ValidationBeforeTransaction ==
    \A r \in Reqs :
        (Done(req[r]) /\ req[r].message \in {"Invalid user ID", "You cannot follow yourself"})
        => req[r].txn = "none"

(* C10: when a followUser or unfollowUser request has been answered, its   *)
(* transaction is committed or aborted and its session is ended.           *)
C10_TransactionClosedBeforeResponse ==
    \A r \in Reqs :
        Done(req[r]) => (req[r].txn \in {"committed", "aborted"} /\ req[r].sessionEnded)

(* C11: at the step in which followUser(A,B) answers 200 the committed     *)
(* state holds B in A.following and A in B.followers; at the step in which *)
(* unfollowUser(A,B) answers 200 it holds neither.                         *)
AnswersSuccess(r) ==
    req[r].pc # "done" /\ req'[r].pc = "done" /\ req'[r].status = 200

C11_SuccessIsCommitted ==
    [][\A r \in Reqs :
          AnswersSuccess(r) =>
             IF req'[r].op = "follow"
             THEN /\ Has(db'[Caller(req'[r])].following, Target(req'[r]))
                  /\ Has(db'[Target(req'[r])].followers, Caller(req'[r]))
             ELSE /\ ~Has(db'[Caller(req'[r])].following, Target(req'[r]))
                  /\ ~Has(db'[Target(req'[r])].followers, Caller(req'[r]))]_vars

(* C12: the summaries getFollowers and getFollowing return hold the id and *)
(* the populated fields username, email, profile, and no password field.   *)
SummariesArePublic(list) ==
    \A i \in DOMAIN list :
        /\ DOMAIN list[i] = PublicFields \cup {"id"}
        /\ "password" \notin DOMAIN list[i]

C12_NoCredentialInSummaries ==
    \A userId \in ParamIds :
        /\ SummariesArePublic(getFollowers(db, userId).list)
        /\ SummariesArePublic(getFollowing(db, userId).list)

C12_Witness ==
    \E r \in Reqs :
        /\ Done(req[r]) /\ req[r].op = "follow" /\ req[r].status = 200
        /\ ListHas(getFollowers(db, req[r].targetUserId).list, Caller(req[r]))
        /\ ListHas(getFollowing(db, req[r].myId).list, Target(req[r]))

(* C13: a response produced for an unhandled failure has status 500 and    *)
(* the fixed message 'Internal Server Error', not the text of the error.   *)
C13_GenericErrorResponse ==
    \A r \in Reqs :
        (Done(req[r]) /\ req[r].error # "none")
        => (req[r].status = 500 /\ req[r].message = "Internal Server Error")

(* C18: no followUser or unfollowUser handler ends without having sent a   *)
(* response or forwarded its error to next().                              *)
C18_EveryRequestAnswered ==
    \A r \in Reqs : req[r].pc # "stuck"

(* C14: the Follow collection holds at most one document per ordered pair  *)
(* and none with follower = following; isFollowing(a,b) is true exactly    *)
(* when a document (a,b) is stored; a followUser call that would break     *)
(* either rule fails, and a failing followUser call leaves the collection  *)
(* as it was.                                                              *)
EdgeRules ==
    /\ \A p \in Pairs : follows[p] <= 1
    /\ \A u \in Users : follows[<<u, u>>] = 0
    /\ \A a, b \in EdgeIds \ {Malformed} :
          isFollowing(follows, a, b) <=> follows[<<a.oid, b.oid>>] = 1

FollowEnds(c) ==
    call[c].pc # "idle" /\ call[c].pc # "done" /\ call'[c].pc = "done" /\ call[c].op = "follow"

WouldBreakRule(q) ==
    /\ isValidObjectId(q.followerId) /\ isValidObjectId(q.followingId)
    /\ \/ q.followerId.oid = q.followingId.oid
       \/ follows[<<q.followerId.oid, q.followingId.oid>>] > 0

FailingFollowChangesNothing ==
    \A c \in Calls :
        FollowEnds(c) =>
            /\ WouldBreakRule(call[c]) => call'[c].result # "ok"
            /\ call'[c].result # "ok" => follows' = follows

C14_NormalizedEdges == []EdgeRules /\ [][FailingFollowChangesNothing]_vars

C14_Witness ==
    \E c, d \in Calls :
        /\ call[c].op = "follow" /\ call[c].result = "E11000"
        /\ follows[<<call[c].followerId.oid, call[c].followingId.oid>>] = 1
        /\ call[d].op = "follow" /\ call[d].result = "User cannot follow themselves"
        /\ call[d].followerId # call[d].followingId

(* C15: no two stored users share a username or an e-mail address, and a   *)
(* register request with a complete body whose e-mail address or username  *)
(* is taken when it is answered gets 409, 'Email already registered' when  *)
(* the e-mail address is taken and 'Username already taken' otherwise,     *)
(* and stores no user.                                                     *)
NoDuplicateUsers ==
    \A i, j \in DOMAIN users :
        i # j => users[i].username # users[j].username /\ users[i].email # users[j].email

RegisterEnds(a) ==
    areq[a].kind = "register" /\ areq[a].pc \in {"findOne", "create"} /\ areq'[a].pc = "done"
EmailTaken(q) == \E i \in DOMAIN users : users[i].email = toLowerCase(q.email)
UsernameTaken(q) == \E i \in DOMAIN users : users[i].username = q.username

TakenIsAnswered409 ==
    \A a \in AReqs :
        (RegisterEnds(a) /\ (EmailTaken(areq[a]) \/ UsernameTaken(areq[a]))) =>
            /\ areq'[a].status = 409
            /\ areq'[a].message = IF EmailTaken(areq[a]) THEN "Email already registered"
                                  ELSE "Username already taken"
            /\ users' = users

C15_RegistrationUnique == []NoDuplicateUsers /\ [][TakenIsAnswered409]_vars

(* C16: a login whose identifier is the e-mail address or the username of  *)
(* a registration that was answered 201 is answered 200 'Login successful' *)
(* with a token cookie when its password is the registered one, and 401    *)
(* 'Invalid credentials' when it is another.                               *)
LoginEnds(a) ==
    areq[a].kind = "login" /\ areq[a].pc \in {"findOne", "compare"} /\ areq'[a].pc = "done"
RegisteredAs(b, identifier) ==
    /\ areq[b].kind = "register" /\ areq[b].status = 201
    /\ identifier \in {areq[b].email, areq[b].username}

C16_LoginAfterRegister ==
    [][\A a, b \in AReqs :
          (LoginEnds(a) /\ RegisteredAs(b, areq[a].identifier)) =>
             IF areq[a].password = areq[b].password
             THEN /\ areq'[a].status = 200
                  /\ areq'[a].message = "Login successful"
                  /\ areq'[a].cookie # NoToken
             ELSE /\ areq'[a].status = 401
                  /\ areq'[a].message = "Invalid credentials"]_vars

(* C17: a request to a protected route that presents a token with which a  *)
(* logout was answered before is rejected, and a logout is answered only   *)
(* for a request whose token verifies.                                     *)
C17_LogoutEndsSession ==
    \A a \in AReqs :
        /\ (areq[a].kind = "protected" /\ areq[a].pc = "done" /\ areq[a].afterLogout)
              => areq[a].status = 401
        /\ (areq[a].kind = "logout" /\ areq[a].status = 200)
              => authMiddleware(areq[a].token)

(* C19 as stated: a post is removed only by a request of its owner; a      *)
(* delete request is answered 401 when no user is authenticated, 404 when  *)
(* no stored post has the id, 403 when the user is not the post's user,    *)
(* and in those cases no post and no image is removed; when the owner's    *)
(* request fails while deleting the image, the post record is present.     *)
StoredPost(id) == IF isValidObjectId(id) THEN findPost(id) ELSE NULL

RemovedByOwnerOnly ==
    \A i \in PostIds :
        (posts[i] # NULL /\ posts'[i] = NULL) =>
            \E p \in PReqs : /\ preq[p].pc = "deleteOne" /\ preq'[p].pc = "done"
                             /\ CastObjectId(preq[p].id) = i
                             /\ preq[p].userId = toString(posts[i].user)

Unauthenticated401(p) ==
    (preq'[p] # preq[p] /\ preq[p].pc \in {"idle", "done"} /\ preq'[p].userId = NoUser)
    => preq'[p].status = 401

RefusalsRemoveNothing(p) ==
    (preq'[p] # preq[p] /\ preq'[p].pc = "done" /\ preq'[p].status \in {401, 403, 404})
    => (posts' = posts /\ images' = images /\ ~preq'[p].touched)

Looked(p) == preq[p].pc = "findById" /\ preq'[p].pc # "findById"
FailsDeletingImage(p) ==
    preq[p].pc = "deleteFile" /\ preq'[p].pc = "done" /\ preq'[p].status = 500

C19_OnlyOwnerDeletes ==
    [][/\ RemovedByOwnerOnly
       /\ \A p \in PReqs :
            /\ Unauthenticated401(p)
            /\ RefusalsRemoveNothing(p)
            /\ (Looked(p) /\ StoredPost(preq[p].id) = NULL) => preq'[p].status = 404
            /\ (Looked(p) /\ StoredPost(preq[p].id) # NULL
                          /\ toString(StoredPost(preq[p].id).user) # preq[p].userId)
                  => preq'[p].status = 403
            /\ FailsDeletingImage(p) => posts'[CastObjectId(preq[p].id)] # NULL]_vars

(* C19 as amended: the same, where 404 is the answer for a well-formed id  *)
(* that no stored post has and an id that is not well-formed is answered   *)
(* 500 with nothing removed, and where the owner's request that fails      *)
(* while deleting the image has itself removed no post record.             *)
C19_OnlyOwnerDeletesWellFormed ==
    [][/\ RemovedByOwnerOnly
       /\ \A p \in PReqs :
            /\ Unauthenticated401(p)
            /\ RefusalsRemoveNothing(p)
            /\ (Looked(p) /\ isValidObjectId(preq[p].id) /\ findPost(preq[p].id) = NULL)
                  => preq'[p].status = 404
            /\ (Looked(p) /\ ~isValidObjectId(preq[p].id))
                  => (preq'[p].status = 500 /\ posts' = posts /\ images' = images)
            /\ (Looked(p) /\ StoredPost(preq[p].id) # NULL
                          /\ toString(StoredPost(preq[p].id).user) # preq[p].userId)
                  => preq'[p].status = 403
            /\ FailsDeletingImage(p) => posts' = posts]_vars

C19_Witness ==
    \E p, o \in PReqs :
        /\ preq[p].pc = "done" /\ preq[p].status = 403
        /\ posts[CastObjectId(preq[p].id)] # NULL
        /\ preq[o].pc = "done" /\ preq[o].status = 500 /\ preq[o].post # NULL
        /\ preq[o].post.img_fileId # NoFile
        /\ posts[CastObjectId(preq[o].id)] # NULL
====
